---- MODULE Spec2Model ----
(***************************************************************************)
(* md5sum_compare: src/md5sum_compare/main.py as state machines.           *)
(*                                                                         *)
(* Spec, FairSpec: the concurrent manifest generator (generate_manifest,   *)
(* process_file, md5sum_async). Processes:                                 *)
(*   - the coroutine generate_manifest on the event loop (variable pc),    *)
(*   - the worker threads of the ThreadPoolExecutor (workq, running).      *)
(* CompareSpec: calls of load_manifest, compare_manifests and compare on   *)
(* manifest files and mappings drawn from bounded sets (variable cpc).     *)
(* Md5Spec: calls of md5sum_async on files of several chunks (hpc).        *)
(* Strings are sequences of one-character strings.                         *)
(***************************************************************************)
EXTENDS Naturals, Integers, Sequences, FiniteSets, TLC

VARIABLES
    listable,   \* the directories of the tree that os.scandir can list
    files,      \* the regular files of the tree: absolute path -> [content, failure]
    pc,         \* position of the coroutine generate_manifest
    dirsTodo,   \* os.walk: directories still to be visited (stack)
    walkRoot,   \* os.walk: the directory whose files are being iterated ("root")
    filesTodo,  \* os.walk: names in "files" not yet iterated
    max_workers, \* number of threads the ThreadPoolExecutor may start
    tasks,      \* the list "tasks": tasks[i] is the file_path given to process_file
    workq,      \* ThreadPoolExecutor work queue (indices into tasks), FIFO
    running,    \* work items being run by a worker thread
    futDone,    \* indices of the futures in the order they completed
    nconsumed,  \* number of futures as_completed has handed to the loop body
    cur,        \* index of the task whose coroutine is being awaited (0: none)
    isOpen,     \* paths of the files currently open for hashing
    pos,        \* read position in the open file
    hash_md5,   \* state of the hash accumulator
    checksum,   \* result of process_file for cur
    sinkOpen,   \* output_file is open
    buffer,     \* lines written to output_file, not yet on disk
    disk,       \* lines of output_file on disk
    logged,     \* file paths passed to logger.exception
    results,    \* what process_file returned, in the order it returned
    raised,     \* an exception left generate_manifest
    retval,     \* value returned by generate_manifest
    cpc,        \* position of the call of load_manifest, compare_manifests or compare
    call,       \* the function that was called
    srcFile,    \* source manifest file: its text, and the entries it was written from
    dstFile,    \* destination manifest file, likewise
    source_manifest,       \* mapping relative path -> checksum
    destination_manifest,  \* mapping relative path -> checksum
    missing_files,    \* compare_manifests: first set returned
    extra_files,      \* compare_manifests: second set returned
    mismatched_files, \* compare_manifests: third set returned
    stdout,     \* what compare printed
    returned,   \* <<>>, or the one value the call returned
    csv,        \* <<>>, or the rows written to output_csv
    hpc,        \* position of the call of md5sum_async
    hcontent,   \* bytes of the file md5sum_async reads
    hpos,       \* its read position
    hstate,     \* its hash accumulator
    chunks,     \* the chunks handed to hash_md5.update, in order
    digest,     \* <<>>, or the digest md5sum_async returned
    runs        \* [content, digest] of the calls of md5sum_async that returned, in order

vars == <<listable, files, max_workers, pc, dirsTodo, walkRoot, filesTodo,
          tasks, workq, running, futDone, nconsumed, cur, isOpen, pos, hash_md5, checksum,
          sinkOpen, buffer, disk, logged, results, raised, retval,
          cpc, call, srcFile, dstFile, source_manifest, destination_manifest,
          missing_files, extra_files, mismatched_files, stdout, returned, csv,
          hpc, hcontent, hpos, hstate, chunks, digest, runs>>

----------------------------------------------------------------------------
(* Bounds of the model *)

MaxFiles == 2          \* candidate files in the tree
MaxContentLen == 1     \* longest file content, in bytes
MaxWorkers == 2        \* largest max_workers of the ThreadPoolExecutor
MaxEntries == 2        \* most entries of a written manifest or of a mapping
MaxLines == 2          \* most lines of a manifest file made by hand
MaxChunks == 2         \* most full chunks of a file given to md5sum_async

(* Program constants *)

ChunkSize == 4096      \* f.read(4096)

----------------------------------------------------------------------------
(* Strings *)

SEP == "/"
NameChars == <<"a", "b", "c", "d", "e", "g">>
HexDigits == <<"0", "1", "2", "3", "4", "5", "6", "7", "8", "9">>

Min(a, b) == IF a < b THEN a ELSE b

\* the argument "directory" and its one subdirectory
directory == <<"r">>
subdir == <<"r", "/", "s">>
Dirs == {directory, subdir}

\* Python's None, and a marker for "no value yet"
None == <<"None">>
NoValue == <<"-">>

\* str(None) as the f-string renders it
NoneToken == <<"N", "o", "n", "e">>

----------------------------------------------------------------------------
(* Path functions of os.path (posixpath) on the paths of the model *)

Last(s) == s[Len(s)]

\* os.path.join(root, file): one separator between the two parts
Join(root, file) ==
    IF Len(root) > 0 /\ Last(root) # SEP THEN root \o <<SEP>> \o file
    ELSE root \o file

\* the components of a path: split on "/" with empty and "." parts dropped;
\* Split reads p from position i on, with the finished parts in acc and the
\* part being read in part
AddPart(acc, part) ==
    IF part = <<>> \/ part = <<".">> THEN acc ELSE Append(acc, part)

RECURSIVE Split(_, _, _, _)
Split(p, i, acc, part) ==
    IF i > Len(p) THEN AddPart(acc, part)
    ELSE IF p[i] = SEP THEN Split(p, i + 1, AddPart(acc, part), <<>>)
    ELSE Split(p, i + 1, acc, Append(part, p[i]))

Components(p) == Split(p, 1, <<>>, <<>>)

\* "/".join(parts)
RECURSIVE JoinAll(_)
JoinAll(parts) ==
    IF parts = <<>> THEN <<>>
    ELSE IF Len(parts) = 1 THEN parts[1]
    ELSE parts[1] \o <<SEP>> \o JoinAll(Tail(parts))

\* length of the common prefix of two component lists
CommonLen(a, b) ==
    CHOOSE n \in 0..Min(Len(a), Len(b)) :
        /\ \A i \in 1..n : a[i] = b[i]
        /\ n < Min(Len(a), Len(b)) => a[n + 1] # b[n + 1]

\* relpath on component lists: ".." for each component of start after the
\* common prefix, then the rest of path; "." when nothing is left
RelParts(pl, sl, i) ==
    [k \in 1..(Len(sl) - i) |-> <<".", ".">>] \o SubSeq(pl, i + 1, Len(pl))

\* os.path.relpath(path, start); the components of both paths are bound once
Relpath(path, start) ==
    CHOOSE r \in {IF rel = <<>> THEN <<".">> ELSE JoinAll(rel) :
                    rel \in {RelParts(pl, sl, CommonLen(sl, pl)) :
                                pl \in {Components(path)}, sl \in {Components(start)}}} :
        TRUE

\* the directory part of a path
Dirname(p) ==
    LET idx == {i \in 1..Len(p) : p[i] = SEP}
    IN  IF idx = {} THEN <<>>
        ELSE SubSeq(p, 1, (CHOOSE i \in idx : \A j \in idx : j <= i) - 1)

----------------------------------------------------------------------------
(* The directory tree *)

\* candidate file i: odd ones directly under directory, even ones under subdir
CandidateDir(i) == IF i % 2 = 1 THEN directory ELSE subdir
CandidatePath(i) == Join(CandidateDir(i), <<NameChars[i]>>)
CandidatePaths == {CandidatePath(i) : i \in 1..MaxFiles}

\* the byte values of a content
Bytes == {0}
RECURSIVE SeqsUpTo(_, _)
SeqsUpTo(S, n) ==
    IF n = 0 THEN {<<>>}
    ELSE LET shorter == SeqsUpTo(S, n - 1)
         IN  shorter \cup {Append(s, x) : s \in {t \in shorter : Len(t) = n - 1}, x \in S}
Contents == SeqsUpTo(Bytes, MaxContentLen)

\* how hashing a file ends: "none" (it succeeds), "open" (aiofiles.open raises),
\* "read" (f.read raises); the content of a file that cannot be read is never
\* seen, so it is left empty
Failures == {"none", "open", "read"}
FileRecords ==
    [content : Contents, failure : {"none"}]
        \cup [content : {<<>>}, failure : {"open", "read"}]

\* what os.walk sees in directory d
FilesIn(d) == {p \in DOMAIN files : Dirname(p) = d}
SubdirsOf(d) == IF d = directory THEN <<subdir>> ELSE <<>>

----------------------------------------------------------------------------
(* hashlib.md5: an accumulator that absorbs the bytes in order, rendered as a
   fixed-width digest (the length digit, the bytes, zero padding) *)

DigestLen == MaxContentLen + 1
Md5New == <<>>
\* (variant: the accumulator puts the new chunk before the bytes it has)
Md5UpdatePrepend(h, chunk) == chunk \o h
Md5Update(h, chunk) == h \o chunk
HexDigest(h) ==
    [i \in 1..DigestLen |->
        IF i = 1 THEN HexDigits[(Len(h) % 10) + 1]
        ELSE IF i - 1 <= Len(h) THEN HexDigits[h[i - 1] + 1]
        ELSE "0"]

\* the digest of a whole content, for stating the properties
DigestOf(content) == HexDigest(Md5Update(Md5New, content))

\* the f-string f"{relative_path} {checksum}\n"
FormatChecksum(c) == IF c = None THEN NoneToken ELSE c
ManifestLine(relative_path, c) ==
    relative_path \o <<" ">> \o FormatChecksum(c) \o <<"\n">>

----------------------------------------------------------------------------
(* Initial state: nothing has been called *)

\* a dict with no key; a manifest file that does not exist yet
EmptyMap == <<>>
NoFile == [text |-> <<>>, entries |-> <<>>, written |-> FALSE]

Trees == UNION {[ps -> FileRecords] : ps \in SUBSET CandidatePaths}

Init ==
    /\ listable = {}
    /\ files = [p \in {} |-> [content |-> <<>>, failure |-> "none"]]
    /\ max_workers = 1
    /\ pc = "idle"
    /\ dirsTodo = <<>>
    /\ walkRoot = NoValue
    /\ filesTodo = {}
    /\ tasks = <<>>
    /\ workq = <<>>
    /\ running = {}
    /\ futDone = <<>>
    /\ nconsumed = 0
    /\ cur = 0
    /\ isOpen = {}
    /\ pos = 0
    /\ hash_md5 = Md5New
    /\ checksum = NoValue
    /\ sinkOpen = FALSE
    /\ buffer = <<>>
    /\ disk = <<>>
    /\ logged = {}
    /\ results = <<>>
    /\ raised = FALSE
    /\ retval = NoValue
    /\ cpc = "idle"
    /\ call = "none"
    /\ srcFile = NoFile
    /\ dstFile = NoFile
    /\ source_manifest = EmptyMap
    /\ destination_manifest = EmptyMap
    /\ missing_files = {}
    /\ extra_files = {}
    /\ mismatched_files = {}
    /\ stdout = <<>>
    /\ returned = <<>>
    /\ csv = <<>>
    /\ hpc = "idle"
    /\ hcontent = <<>>
    /\ hpos = 0
    /\ hstate = Md5New
    /\ chunks = <<>>
    /\ digest = <<>>
    /\ runs = <<>>

treeVars == <<listable, files, max_workers>>
walkVars == <<dirsTodo, walkRoot, filesTodo>>
poolVars == <<workq, running, futDone>>
hashVars == <<isOpen, pos, hash_md5>>
sinkVars == <<sinkOpen, buffer, disk>>
genVars == <<treeVars, pc, walkVars, tasks, poolVars, nconsumed, cur, hashVars,
             checksum, sinkVars, logged, results, raised, retval>>
fileVars == <<srcFile, dstFile>>
cmpVars == <<cpc, call, fileVars, source_manifest, destination_manifest,
             missing_files, extra_files, mismatched_files, stdout, returned, csv>>
md5Vars == <<hpc, hcontent, hpos, hstate, chunks, digest, runs>>
\* what the generator leaves alone
otherVars == <<cmpVars, md5Vars>>

----------------------------------------------------------------------------
(* generate_manifest(directory, output_file) is called on some tree, on a
   machine whose executor may start mw threads: lines 33-36 *)
Generate(tree, dirs, mw) ==
    /\ pc = "idle"
    /\ files' = tree
    /\ listable' = dirs
    /\ max_workers' = mw
    /\ tasks' = <<>>
    /\ dirsTodo' = <<directory>>
    /\ pc' = "walk"
    /\ UNCHANGED <<otherVars, walkRoot, filesTodo, poolVars, nconsumed, cur, hashVars,
                   checksum, sinkVars, logged, results, raised, retval>>

----------------------------------------------------------------------------
(* os.walk(directory), main.py line 37 *)

Basename(p) == SubSeq(p, Len(Dirname(p)) + 2, Len(p))

\* os.walk lists the next directory and yields (root, dirs, files)
WalkScan ==
    /\ pc = "walk" /\ filesTodo = {} /\ dirsTodo # <<>>
    /\ Head(dirsTodo) \in listable
    /\ walkRoot' = Head(dirsTodo)
    /\ filesTodo' = {Basename(p) : p \in FilesIn(Head(dirsTodo))}
    /\ dirsTodo' = SubdirsOf(Head(dirsTodo)) \o Tail(dirsTodo)
    /\ UNCHANGED <<otherVars, treeVars, pc, tasks, poolVars, nconsumed, cur, hashVars,
                   checksum, sinkVars, logged, results, raised, retval>>

\* os.scandir fails on the next directory: os.walk was called without onerror,
\* so the error is dropped and the walk goes on with the next directory
WalkScandirError ==
    /\ pc = "walk" /\ filesTodo = {} /\ dirsTodo # <<>>
    /\ Head(dirsTodo) \notin listable
    /\ dirsTodo' = Tail(dirsTodo)
    /\ UNCHANGED <<otherVars, treeVars, pc, walkRoot, filesTodo, tasks, poolVars, nconsumed,
                   cur, hashVars, checksum, sinkVars, logged, results, raised,
                   retval>>

\* the body of "for file in files": lines 39-40
Submit(file) ==
    /\ pc = "walk" /\ file \in filesTodo
    /\ LET file_path == Join(walkRoot, file)
       IN  /\ tasks' = Append(tasks, file_path)
           /\ workq' = Append(workq, Len(tasks) + 1)
    /\ filesTodo' = filesTodo \ {file}
    /\ UNCHANGED <<otherVars, treeVars, pc, dirsTodo, walkRoot, running, futDone, nconsumed,
                   cur, hashVars, checksum, sinkVars, logged, results, raised,
                   retval>>

\* the walk is exhausted: open(output_file, 'w'), line 42, and as_completed(tasks)
WalkEnd ==
    /\ pc = "walk" /\ filesTodo = {} /\ dirsTodo = <<>>
    /\ sinkOpen' = TRUE
    /\ buffer' = <<>> /\ disk' = <<>>
    /\ pc' = "consume"
    /\ UNCHANGED <<otherVars, treeVars, walkVars, tasks, poolVars, nconsumed, cur, hashVars,
                   checksum, logged, results, raised, retval>>

----------------------------------------------------------------------------
(* The ThreadPoolExecutor: its threads call process_file(file_path), which only
   creates the coroutine object; the future completes with that coroutine *)

\* (variant: the executor starts a thread for every work item)
AlwaysIdle == TRUE

\* a thread is idle, or may still be started
IdleWorker == Cardinality(running) < max_workers

\* (variant: process_file is a plain function, the thread itself opens the file)
WorkerStartSync ==
    /\ workq # <<>> /\ IdleWorker
    /\ running' = running \cup {Head(workq)}
    /\ workq' = Tail(workq)
    /\ isOpen' = isOpen \cup {tasks[Head(workq)]}
    /\ UNCHANGED <<otherVars, treeVars, pc, walkVars, tasks, futDone, nconsumed, cur,
                   pos, hash_md5, checksum, sinkVars, logged, results, raised,
                   retval>>

WorkerStart ==
    /\ workq # <<>> /\ IdleWorker
    /\ running' = running \cup {Head(workq)}
    /\ workq' = Tail(workq)
    /\ UNCHANGED <<otherVars, treeVars, pc, walkVars, tasks, futDone, nconsumed, cur,
                   hashVars, checksum, sinkVars, logged, results, raised, retval>>

\* (variant: the thread that ran the work item writes to output_file itself)
WorkerFinishWrites(i) ==
    /\ i \in running
    /\ running' = running \ {i}
    /\ futDone' = Append(futDone, i)
    /\ buffer' = Append(buffer, Relpath(tasks[i], directory) \o <<" ">>)
    /\ UNCHANGED <<otherVars, treeVars, pc, walkVars, tasks, workq, nconsumed, cur, hashVars,
                   checksum, sinkOpen, disk, logged, results, raised, retval>>

\* the thread returns the coroutine object: the future of the work item is done
WorkerFinish(i) ==
    /\ i \in running
    /\ running' = running \ {i}
    /\ futDone' = Append(futDone, i)
    /\ UNCHANGED <<otherVars, treeVars, pc, walkVars, tasks, workq, nconsumed, cur, hashVars,
                   checksum, sinkVars, logged, results, raised, retval>>

----------------------------------------------------------------------------
(* The loop over asyncio.as_completed(tasks), lines 43-47 *)

\* (variant: the futures are awaited in the order of the list "tasks")
NextSubmitted == nconsumed + 1

\* as_completed yields the futures in the order they completed
NextCompleted == futDone[nconsumed + 1]

\* (variant: one accumulator shared by all the files)
StaleHash == hash_md5

\* line 15: hash_md5 = hashlib.md5(), a new accumulator for each file
FreshHash == Md5New

\* "result = await task" gives the coroutine of the next completed future;
\* "await result" starts process_file -> md5sum_async, up to aiofiles.open
AwaitTask ==
    /\ pc = "consume" /\ nconsumed < Len(futDone)
    /\ cur' = NextCompleted
    /\ nconsumed' = nconsumed + 1
    /\ hash_md5' = FreshHash
    /\ pc' = "open"
    /\ UNCHANGED <<otherVars, treeVars, walkVars, tasks, poolVars, isOpen, pos, checksum,
                   sinkVars, logged, results, raised, retval>>

\* process_file returns (file_path, c) to the loop body
ProcessFileReturn(file_path, c) ==
    /\ results' = Append(results, [task |-> cur, file_path |-> file_path, checksum |-> c])
    /\ checksum' = c
    /\ pc' = "write"

\* an exception leaves generate_manifest: both with-blocks exit, closing
\* output_file and shutting the executor down
Propagate ==
    /\ raised' = TRUE
    /\ pc' = "raised"
    /\ sinkOpen' = FALSE
    /\ disk' = disk \o buffer
    /\ buffer' = <<>>
    /\ UNCHANGED <<results, checksum, logged>>

ProcessFilePropagates(file_path) == Propagate

\* process_file, lines 28-30: the exception is logged and None is returned
ProcessFileExcept(file_path) ==
    /\ logged' = logged \cup {file_path}
    /\ ProcessFileReturn(file_path, None)
    /\ UNCHANGED <<raised, sinkVars>>

\* aiofiles.open(file_path, 'rb'), line 16
OpenFile ==
    /\ pc = "open"
    /\ LET file_path == tasks[cur]
       IN  IF files[file_path].failure = "open"
           THEN /\ ProcessFileExcept(file_path)
                /\ UNCHANGED <<isOpen, pos>>
           ELSE /\ isOpen' = isOpen \cup {file_path}
                /\ pos' = 0
                /\ pc' = "read"
                /\ UNCHANGED <<checksum, sinkVars, logged, results, raised>>
    /\ UNCHANGED <<otherVars, treeVars, walkVars, tasks, poolVars, nconsumed, cur, hash_md5,
                   retval>>

\* f.read(4096) at position p of a content
ReadAt(content, p) == SubSeq(content, p + 1, Min(p + ChunkSize, Len(content)))

\* one turn of the while loop of md5sum_async, lines 17-21: an exception of
\* f.read, or the empty chunk, leaves the "async with" block, which awaits
\* f.close()
ReadChunk ==
    /\ pc = "read"
    /\ LET file_path == tasks[cur]
           chunk == ReadAt(files[file_path].content, pos)
       IN  IF files[file_path].failure = "read"
           THEN /\ pc' = "close_exc"
                /\ UNCHANGED <<pos, hash_md5>>
           ELSE IF chunk = <<>>
           THEN /\ pc' = "close"
                /\ UNCHANGED <<pos, hash_md5>>
           ELSE /\ hash_md5' = Md5Update(hash_md5, chunk)
                /\ pos' = pos + Len(chunk)
                /\ UNCHANGED pc
    /\ UNCHANGED <<otherVars, treeVars, walkVars, tasks, poolVars, nconsumed, cur, isOpen,
                   checksum, sinkVars, logged, results, raised, retval>>

\* the close of line 16 has completed: md5sum_async returns the digest (line
\* 22), or the exception of f.read goes on to process_file
CloseFile ==
    /\ pc \in {"close", "close_exc"}
    /\ LET file_path == tasks[cur]
       IN  /\ isOpen' = isOpen \ {file_path}
           /\ IF pc = "close_exc"
              THEN ProcessFileExcept(file_path)
              ELSE /\ ProcessFileReturn(file_path, HexDigest(hash_md5))
                   /\ UNCHANGED <<sinkVars, logged, raised>>
    /\ UNCHANGED <<otherVars, treeVars, walkVars, tasks, poolVars, nconsumed, cur, pos,
                   hash_md5, retval>>

\* (variant: no line for a file whose checksum is None)
WriteLineSkipsFailed ==
    /\ pc = "write"
    /\ LET file_path == Last(results).file_path
           relative_path == Relpath(file_path, directory)
       IN  buffer' = IF Last(results).checksum = None THEN buffer
                     ELSE Append(buffer, ManifestLine(relative_path, Last(results).checksum))
    /\ pc' = "consume"
    /\ cur' = 0
    /\ UNCHANGED <<otherVars, treeVars, walkVars, tasks, poolVars, nconsumed, hashVars,
                   checksum, sinkOpen, disk, logged, results, raised, retval>>

\* lines 45-47: the path relative to directory, and f.write of the line
WriteLine ==
    /\ pc = "write"
    /\ LET file_path == Last(results).file_path
           relative_path == Relpath(file_path, directory)
       IN  buffer' = Append(buffer, ManifestLine(relative_path, Last(results).checksum))
    /\ pc' = "consume"
    /\ cur' = 0
    /\ UNCHANGED <<otherVars, treeVars, walkVars, tasks, poolVars, nconsumed, hashVars,
                   checksum, sinkOpen, disk, logged, results, raised, retval>>

\* the buffered writer of output_file empties its buffer to the disk
FlushBuffer ==
    /\ sinkOpen /\ buffer # <<>>
    /\ disk' = disk \o buffer
    /\ buffer' = <<>>
    /\ UNCHANGED <<otherVars, treeVars, pc, walkVars, tasks, poolVars, nconsumed, cur,
                   hashVars, checksum, sinkOpen, logged, results, raised, retval>>

\* (variant: the counts of files and of failures are returned)
ReturnCounts ==
    <<Len(tasks), Cardinality({i \in 1..Len(results) : results[i].checksum = None})>>

\* generate_manifest has no return statement: it returns None
ReturnValue == None

\* (variant: output_file is not closed when the loop ends)
FinishLeavesOpen ==
    /\ pc = "consume" /\ nconsumed = Len(tasks)
    /\ workq = <<>> /\ running = {}
    /\ retval' = ReturnValue
    /\ pc' = "done"
    /\ UNCHANGED <<otherVars, treeVars, walkVars, tasks, poolVars, nconsumed, cur, hashVars,
                   checksum, sinkVars, logged, results, raised>>

\* as_completed is exhausted: output_file is closed (line 42's with), the
\* executor is shut down (line 33's with) and generate_manifest returns None
Finish ==
    /\ pc = "consume" /\ nconsumed = Len(tasks)
    /\ workq = <<>> /\ running = {}
    /\ disk' = disk \o buffer
    /\ buffer' = <<>>
    /\ sinkOpen' = FALSE
    /\ retval' = ReturnValue
    /\ pc' = "done"
    /\ UNCHANGED <<otherVars, treeVars, walkVars, tasks, poolVars, nconsumed, cur, hashVars,
                   checksum, logged, results, raised>>

----------------------------------------------------------------------------

Next ==
    \/ pc = "idle" /\ \E tree \in Trees, dirs \in SUBSET Dirs, mw \in 1..MaxWorkers :
                          Generate(tree, dirs, mw)
    \/ WalkScan
    \/ WalkScandirError
    \/ \E file \in filesTodo : Submit(file)
    \/ WalkEnd
    \/ WorkerStart
    \/ \E i \in running : WorkerFinish(i)
    \/ AwaitTask
    \/ OpenFile
    \/ ReadChunk
    \/ CloseFile
    \/ WriteLine
    \/ FlushBuffer
    \/ Finish

Spec == Init /\ [][Next]_vars

\* the steps of the coroutine generate_manifest once it is called, and those of
\* the executor's threads
MainStep ==
    \/ WalkScan
    \/ WalkScandirError
    \/ \E file \in filesTodo : Submit(file)
    \/ WalkEnd
    \/ AwaitTask
    \/ OpenFile
    \/ ReadChunk
    \/ CloseFile
    \/ WriteLine
    \/ Finish

WorkerStep ==
    \/ WorkerStart
    \/ \E i \in running : WorkerFinish(i)

\* the event loop keeps running the coroutine and the threads keep running
FairSpec == Init /\ [][Next]_vars /\ WF_vars(MainStep) /\ WF_vars(WorkerStep)

----------------------------------------------------------------------------
(* What the properties are stated against *)

\* the files os.walk can reach: every directory on the way can be listed
Enumerable ==
    {p \in DOMAIN files : directory \in listable /\ Dirname(p) \in listable}

\* a path under directory without the leading "r/"
RelOf(p) == SubSeq(p, Len(directory) + 2, Len(p))

\* the line a file must have in the manifest
ExpectedLine(p) ==
    RelOf(p) \o <<" ">>
        \o (IF files[p].failure = "none" THEN DigestOf(files[p].content)
            ELSE <<"N", "o", "n", "e">>)
        \o <<"\n">>

\* the manifest as written so far, and its lines that carry the token None
Lines == disk \o buffer
IsNoneLine(l) ==
    Len(l) >= 6 /\ SubSeq(l, Len(l) - 5, Len(l)) = <<" ", "N", "o", "n", "e", "\n">>
Failing(S) == {p \in S : files[p].failure # "none"}
TaskSet == {tasks[i] : i \in 1..Len(tasks)}
ResultOf(p) == {results[i].checksum : i \in {j \in 1..Len(results) : results[j].file_path = p}}

----------------------------------------------------------------------------
(* C1: failure isolation. Whatever files fail, no exception leaves
   generate_manifest; the task of a failing file yields (path, None), the task
   of every other file yields the digest of its own content; and when the run
   is done every enumerated file has its result. *)
C1_FailureIsolation ==
    /\ ~raised /\ pc # "raised"
    /\ \A i \in 1..Len(results) :
         LET r == results[i]
         IN  /\ r.file_path = tasks[r.task]
             /\ files[r.file_path].failure # "none" => r.checksum = None
             /\ files[r.file_path].failure = "none"
                    => r.checksum = DigestOf(files[r.file_path].content)
    /\ pc = "done" => \A p \in Enumerable : Cardinality(ResultOf(p)) = 1

\* a run is done in which the first file consumed failed and the next one
\* still got its digest
C1_Witness ==
    /\ pc = "done" /\ Len(results) = 2
    /\ results[1].checksum = None
    /\ results[2].checksum # None

(* C2: when the run is done the manifest on disk has exactly one line per
   enumerated file, N lines for N files; a failed file has its own line, with
   the token None where the digest would be, and every line is a single
   newline-terminated line. *)
C2_OneLinePerFile ==
    pc = "done" =>
        /\ Len(disk) = Cardinality(Enumerable)
        /\ \A p \in Enumerable :
             Cardinality({i \in 1..Len(disk) : disk[i] = ExpectedLine(p)}) = 1
        /\ \A p \in Failing(Enumerable) :
             \E i \in 1..Len(disk) :
                disk[i] = RelOf(p) \o <<" ", "N", "o", "n", "e", "\n">>
        /\ \A i \in 1..Len(disk) :
             {k \in 1..Len(disk[i]) : disk[i][k] = "\n"} = {Len(disk[i])}

\* done with two files enumerated, exactly one of them unreadable
C2_Witness ==
    /\ pc = "done"
    /\ Cardinality(Enumerable) = 2
    /\ Cardinality(Failing(Enumerable)) = 1
    /\ Len(disk) = 2

(* C3: the line of a file whose checksum succeeds is exactly
   "<path relative to directory> <digest of that file's content>\n": the i-th
   line written belongs to the i-th result, and its digest is that of the file
   it names, in whatever order the tasks completed. *)
C3_LineIsOwnDigest ==
    /\ \A i \in 1..Len(Lines) :
         LET p == results[i].file_path
         IN  files[p].failure = "none" =>
                Lines[i] = RelOf(p) \o <<" ">> \o DigestOf(files[p].content) \o <<"\n">>
    /\ pc = "done" =>
         \A p \in Enumerable :
            files[p].failure = "none" =>
                \E i \in 1..Len(disk) :
                    disk[i] = RelOf(p) \o <<" ">> \o DigestOf(files[p].content) \o <<"\n">>

\* done with two files of different content, both hashed, the one submitted
\* second written first
C3_Witness ==
    /\ pc = "done" /\ Len(disk) = 2
    /\ results[1].task = 2 /\ results[2].task = 1
    /\ \A i \in 1..2 : files[tasks[i]].failure = "none"
    /\ files[tasks[1]].content # files[tasks[2]].content

----------------------------------------------------------------------------
(* C4, as claimed: when generate_manifest is done it has returned the pair
   (number of files enumerated, number of files whose digest is absent). *)
C4_ReturnsCounts ==
    pc = "done" =>
        retval = <<Cardinality(Enumerable), Cardinality(Failing(Enumerable))>>

(* C4, amended: generate_manifest returns None; the number of files enumerated
   is the number of lines of the manifest, and the number of files whose digest
   is absent is the number of lines carrying None and of errors logged: the
   failures are recorded, not counted or returned. *)
C4_ReturnsNone ==
    pc = "done" =>
        /\ retval = None
        /\ Len(disk) = Cardinality(Enumerable)
        /\ Cardinality({i \in 1..Len(disk) : IsNoneLine(disk[i])})
              = Cardinality(Failing(Enumerable))
        /\ logged = Failing(Enumerable)

\* done with two files enumerated, one of them failed
C4_Witness ==
    /\ pc = "done" /\ retval = None
    /\ Len(tasks) = 2
    /\ Cardinality(logged) = 1

(* C5, as claimed: a directory that cannot be listed makes generation fail;
   the run is never done with a manifest that leaves out the files that could
   not be listed. *)
C5_EnumerationErrorAborts ==
    pc = "done" => directory \in listable /\ subdir \in listable

(* C6: under fair scheduling of the coroutine and of the pool's threads every
   run that was started is eventually done, and when it is done every submitted task has
   produced its result, every line is on disk, nothing is left in the buffer
   or in the pool, and output_file is closed. *)
Completed ==
    /\ Len(results) = Len(tasks)
    /\ {results[i].task : i \in 1..Len(results)} = 1..Len(tasks)
    /\ workq = <<>> /\ running = {} /\ Len(futDone) = Len(tasks)
    /\ buffer = <<>> /\ ~sinkOpen
    /\ Len(disk) = Len(tasks)
    /\ \A p \in TaskSet : \E i \in 1..Len(disk) : disk[i] = ExpectedLine(p)

C6_EventuallyCompleted ==
    /\ (pc = "walk") ~> (pc = "done")
    /\ [](pc = "done" => Completed)

\* done with two files, the last line still in the buffer when the loop ended
C6_Witness ==
    /\ pc = "done" /\ Len(tasks) = 2 /\ Completed
    /\ \E i \in 1..2 : files[tasks[i]].failure # "none"

(* C7: the results are consumed in the order in which the futures completed,
   which need not be the order of submission, and the line of a result is
   written as soon as it is consumed: the lines are in the order in which the
   checksum computations finished. *)
C7_CompletionOrder ==
    /\ Len(results) <= Len(futDone)
    /\ \A i \in 1..Len(results) : results[i].task = futDone[i]
    /\ Len(Lines) = Len(results) - (IF pc = "write" THEN 1 ELSE 0)
    /\ \A i \in 1..Len(Lines) : Lines[i] = ExpectedLine(results[i].file_path)
    /\ pc \in {"open", "read", "close", "close_exc"} => Len(results) = nconsumed - 1

\* the file submitted second completed, was hashed and written first
C7_Witness ==
    /\ Len(tasks) = 2 /\ Len(Lines) = 2
    /\ futDone = <<2, 1>>
    /\ Lines[1] = ExpectedLine(tasks[2])
    /\ Lines[2] = ExpectedLine(tasks[1])

----------------------------------------------------------------------------
\* the tasks whose coroutine has been started by the loop
Started == {futDone[k] : k \in 1..nconsumed}
\* a checksum computation is under way (started, its line not yet written)
InProgress == pc \in {"open", "read", "close", "close_exc", "write"}

(* C8, as claimed: the checksum computations run in parallel in the pool; no
   file's checksum waits for another file's checksum, or for its line, before
   it starts: while one is in progress and a worker is free, no submitted task
   is left waiting to start. *)
C8_NoTaskWaits ==
    ~ /\ max_workers >= 2
      /\ InProgress
      /\ Cardinality(isOpen) < max_workers
      /\ \E i \in 1..Len(tasks) : i # cur /\ i \notin Started

(* C9: the number of checksum tasks executing at once, whether counted as the
   work items run by the pool's threads or as the files open and being hashed,
   never exceeds the pool's size, however many tasks were submitted. *)
C9_BoundedConcurrency ==
    /\ Cardinality(running) <= max_workers
    /\ Cardinality(isOpen) <= max_workers

\* more tasks submitted than the pool has workers, the pool full, and later a
\* file open for hashing
C9_Witness ==
    /\ Len(tasks) > max_workers
    /\ isOpen # {}
    /\ workq # <<>> \/ running # {}

(* C10: no file is opened or read before the walk has finished and one task
   per enumerated file has been created; from the first checksum on, the list
   of tasks is the full set of files. *)
C10_TasksFixedBeforeHashing ==
    (InProgress \/ isOpen # {} \/ nconsumed > 0 \/ results # <<>>) =>
        /\ dirsTodo = <<>> /\ filesTodo = {}
        /\ TaskSet = Enumerable
        /\ Len(tasks) = Cardinality(Enumerable)

\* the first file is open for hashing, both files of the tree are tasks
C10_Witness ==
    /\ isOpen # {} /\ nconsumed = 1
    /\ Len(tasks) = 2
    /\ Cardinality(DOMAIN files) = 2

----------------------------------------------------------------------------
(* C11: writes to output_file are serialized. The only step that adds text to
   the manifest is the f.write of the coroutine generate_manifest (a single
   writer, at its position "write"), and that step adds exactly one whole
   line, the line of the file whose result it has just received; no thread of
   the pool writes, so no two lines are interleaved or cut, whatever the
   interleaving of the worker threads. *)
C11_SerializedWrites ==
    [][Lines' # Lines =>
          /\ pc = "write" /\ pc' = "consume"
          /\ cur \in 1..Len(tasks)
          /\ Lines' = Append(Lines, ExpectedLine(tasks[cur]))]_vars

\* two lines are written while two threads have completed out of order
C11_Witness ==
    /\ max_workers = 2
    /\ futDone = <<2, 1>>
    /\ Len(Lines) = 2
    /\ Lines[1] # Lines[2]

----------------------------------------------------------------------------
(* Manifest files for load_manifest and compare *)

RECURSIVE Flatten(_)
Flatten(ls) == IF ls = <<>> THEN <<>> ELSE Head(ls) \o Flatten(Tail(ls))

\* relative paths and checksums of the entries written to a manifest
StorePaths == {<<"a">>, <<"b">>, <<"a", " ", "b">>}
StoreDigests == {DigestOf(<<>>), DigestOf(<<0>>)}
StoreChecksums == StoreDigests \cup {None}
Entries == [relative_path : StorePaths, checksum : StoreChecksums]

\* the results of a run, in the order they are written: one per file
EntrySeqs ==
    UNION {{e \in [1..n -> Entries] :
               \A i, j \in 1..n : i # j => e[i].relative_path # e[j].relative_path}
           : n \in 0..MaxEntries}

\* the text generate_manifest writes for these results, line after line
StoreText(entries) ==
    Flatten([i \in 1..Len(entries) |->
                ManifestLine(entries[i].relative_path, entries[i].checksum)])
WrittenFile(entries) == [text |-> StoreText(entries), entries |-> entries, written |-> TRUE]
WrittenFiles == {WrittenFile(e) : e \in EntrySeqs}

\* lines of manifests made by hand, as the tests make them: well formed, with a
\* repeated key, without a space, blank, with spaces at the ends, with two
\* spaces, without the final newline, ending in CR LF, with a bare CR inside,
\* with other white space at the ends
NL == <<"\n">>
RawLineSet ==
    {ManifestLine(<<"a">>, DigestOf(<<>>)),
     ManifestLine(<<"a">>, DigestOf(<<0>>)),
     ManifestLine(<<"b">>, DigestOf(<<>>)),
     <<"a">> \o NL,
     NL,
     <<"a", " ">> \o NL,
     <<" ", "a", " ">> \o DigestOf(<<>>) \o <<" ">> \o NL,
     <<"a", " ", " ">> \o DigestOf(<<>>) \o NL,
     <<"b", " ">> \o DigestOf(<<0>>),
     <<"a", " ">> \o DigestOf(<<>>) \o <<"\r", "\n">>,
     <<"a", " ">> \o DigestOf(<<>>) \o <<"\r", "b", " ">> \o DigestOf(<<0>>) \o NL,
     <<"\\x1c", "a", " ">> \o DigestOf(<<>>) \o <<"\f", "\\x85">> \o NL}
RawFile(t) == [text |-> t, entries |-> <<>>, written |-> FALSE]
RawFiles == {RawFile(Flatten(ls)) : ls \in SeqsUpTo(RawLineSet, MaxLines)}

\* the manifest files compare is called on: written ones, two with a line
\* that has no space, and one with CR LF line ends
MalformedFiles ==
    {RawFile(<<"a">> \o NL),
     RawFile(ManifestLine(<<"b">>, DigestOf(<<>>)) \o <<"a">> \o NL)}
CrLfFiles ==
    {RawFile(<<"a", " ">> \o DigestOf(<<>>) \o <<"\r", "\n">>
                 \o <<"b", " ">> \o DigestOf(<<0>>) \o <<"\r", "\n">>)}
CompareFiles == WrittenFiles \cup MalformedFiles \cup CrLfFiles

----------------------------------------------------------------------------
(* load_manifest, lines 50-56 *)

\* open(manifest_file, 'r'): text mode with universal newlines, "\r\n" and
\* "\r" are read as "\n"
Universal(text) ==
    LET keep == {i \in 1..Len(text) :
                    ~(text[i] = "\r" /\ i < Len(text) /\ text[i + 1] = "\n")}
        at(k) == CHOOSE i \in keep : Cardinality({j \in keep : j <= i}) = k
    IN  [k \in 1..Cardinality(keep) |-> IF text[at(k)] = "\r" THEN "\n" ELSE text[at(k)]]

\* the text cut after every newline
CutLines(text) ==
    LET ends == {i \in 1..Len(text) : text[i] = "\n"}
                    \cup (IF text # <<>> /\ Last(text) # "\n" THEN {Len(text)} ELSE {})
        end(k) == CHOOSE i \in ends : Cardinality({j \in ends : j <= i}) = k
    IN  [k \in 1..Cardinality(ends) |->
            SubSeq(text, IF k = 1 THEN 1 ELSE end(k - 1) + 1, end(k))]

\* "for line in f"
FileLines(text) == CutLines(Universal(text))

\* str.strip(): the characters for which str.isspace() holds are removed at
\* both ends; those that have no escape here are written as Python writes them
Whitespace ==
    {" ", "\t", "\n", "\r", "\f", "\\x0b", "\\x1c", "\\x1d", "\\x1e", "\\x1f",
     "\\x85", "\\xa0", "\\u1680", "\\u2000", "\\u2001", "\\u2002", "\\u2003",
     "\\u2004", "\\u2005", "\\u2006", "\\u2007", "\\u2008", "\\u2009", "\\u200a",
     "\\u2028", "\\u2029", "\\u202f", "\\u205f", "\\u3000"}
Strip(s) ==
    LET keep == {i \in 1..Len(s) : s[i] \notin Whitespace}
    IN  IF keep = {} THEN <<>>
        ELSE SubSeq(s, CHOOSE i \in keep : \A j \in keep : i <= j,
                       CHOOSE i \in keep : \A j \in keep : j <= i)

\* (variant: split at the last space)
SplitLast(s) ==
    LET sp == {i \in 1..Len(s) : s[i] = " "}
    IN  IF sp = {} THEN <<s>>
        ELSE LET i == CHOOSE i \in sp : \A j \in sp : j <= i
             IN  <<SubSeq(s, 1, i - 1), SubSeq(s, i + 1, Len(s))>>

\* str.split(' ', 1): at most one split, at the first space
SplitFirst(s) ==
    LET sp == {i \in 1..Len(s) : s[i] = " "}
    IN  IF sp = {} THEN <<s>>
        ELSE LET i == CHOOSE i \in sp : \A j \in sp : i <= j
             IN  <<SubSeq(s, 1, i - 1), SubSeq(s, i + 1, Len(s))>>

\* manifest[relative_path] = checksum
Put(manifest, k, v) ==
    [x \in DOMAIN manifest \cup {k} |-> IF x = k THEN v ELSE manifest[x]]

\* (variant: a line that cannot be unpacked is skipped)
RECURSIVE LoadLinesSkipping(_, _)
LoadLinesSkipping(lines, manifest) ==
    IF lines = <<>> THEN [raised |-> FALSE, manifest |-> manifest]
    ELSE LET parts == SplitFirst(Strip(Head(lines)))
         IN  IF Len(parts) # 2 THEN LoadLinesSkipping(Tail(lines), manifest)
             ELSE LoadLinesSkipping(Tail(lines), Put(manifest, parts[1], parts[2]))

\* the loop of lines 53-55; unpacking anything but two parts raises ValueError,
\* which leaves load_manifest and discards the local dict
RECURSIVE LoadLines(_, _)
LoadLines(lines, manifest) ==
    IF lines = <<>> THEN [raised |-> FALSE, manifest |-> manifest]
    ELSE LET parts == SplitFirst(Strip(Head(lines)))
         IN  IF Len(parts) # 2 THEN [raised |-> TRUE, manifest |-> EmptyMap]
             ELSE LoadLines(Tail(lines), Put(manifest, parts[1], parts[2]))

LoadManifest(text) == LoadLines(FileLines(text), EmptyMap)

----------------------------------------------------------------------------
(* compare_manifests, lines 58-66 *)

\* (variant: every source file is reported missing)
AllSourceFiles(source_files, destination_files) == source_files

\* line 62
MissingFiles(source_files, destination_files) == source_files \ destination_files

\* (variant: the difference taken the wrong way round)
SourceOnly(source_files, destination_files) == source_files \ destination_files

\* line 63
ExtraFiles(source_files, destination_files) == destination_files \ source_files

\* (variant: every file of the source that differs or is absent)
MismatchedOrAbsent(source, destination) ==
    {file \in DOMAIN source :
        file \notin DOMAIN destination \/ source[file] # destination[file]}

\* line 64
MismatchedFiles(source, destination) ==
    {file \in DOMAIN source \cap DOMAIN destination : source[file] # destination[file]}

\* the mappings compare_manifests is called on directly
StoreValues == {FormatChecksum(c) : c \in StoreChecksums}
Manifests ==
    UNION {[ks -> StoreValues] : ks \in {k \in SUBSET StorePaths : Cardinality(k) <= MaxEntries}}

----------------------------------------------------------------------------
(* compare, lines 68-96 *)

\* list(a_set): the members in some order
Orderings(S) ==
    {l \in [1..Cardinality(S) -> S] : \A i, j \in 1..Cardinality(S) : i # j => l[i] # l[j]}

\* the cell pandas puts where a column has no value
NaN == <<"NaN">>

\* pd.Series(v) aligned on the row index 0..n-1 of the frame
PadTo(col, n) == [i \in 1..n |-> IF i <= Len(col) THEN col[i] ELSE NaN]

\* (variant: the columns are cut to the shortest list)
DataFrameShortest(data) ==
    LET n == CHOOSE k \in {Len(data.missing), Len(data.extra), Len(data.hash_mismatch)} :
                 /\ k <= Len(data.missing) /\ k <= Len(data.extra)
                 /\ k <= Len(data.hash_mismatch)
    IN  [missing |-> SubSeq(data.missing, 1, n),
         extra |-> SubSeq(data.extra, 1, n),
         hash_mismatch |-> SubSeq(data.hash_mismatch, 1, n)]

\* line 91: one column per list, as long as the longest list
DataFrame(data) ==
    LET n == CHOOSE k \in {Len(data.missing), Len(data.extra), Len(data.hash_mismatch)} :
                 /\ k >= Len(data.missing) /\ k >= Len(data.extra)
                 /\ k >= Len(data.hash_mismatch)
    IN  [missing |-> PadTo(data.missing, n),
         extra |-> PadTo(data.extra, n),
         hash_mismatch |-> PadTo(data.hash_mismatch, n)]

\* df.to_csv(output_csv, index=False): the header, then one row per index
CsvField(cell) == IF cell = NaN THEN <<>> ELSE cell
ToCsv(df) ==
    <<<<"missing", "extra", "hash_mismatch">>>>
        \o [i \in 1..Len(df.missing) |->
               <<CsvField(df.missing[i]), CsvField(df.extra[i]), CsvField(df.hash_mismatch[i])>>]

\* lines 74-84 and 94: what is printed
Printed(data, output_csv) ==
    <<<<"Files only in source: ", Len(data.missing)>>>> \o data.missing
        \o <<<<"Files only in destination: ", Len(data.extra)>>>> \o data.extra
        \o <<<<"Files with different md5sum values: ", Len(data.hash_mismatch)>>>>
        \o data.hash_mismatch
        \o (IF output_csv THEN <<<<"Results written to ", "output_csv">>>> ELSE <<>>)

----------------------------------------------------------------------------
(* Calls of load_manifest, compare_manifests and compare *)

ManifestFiles == WrittenFiles \cup RawFiles

\* a manifest file exists, and load_manifest(manifest_file) is called on it
PutFile(file) ==
    /\ cpc = "idle"
    /\ srcFile' = file
    /\ call' = "load_manifest"
    /\ cpc' = "called"
    /\ UNCHANGED <<genVars, md5Vars, dstFile, source_manifest, destination_manifest,
                   missing_files, extra_files, mismatched_files, stdout, returned, csv>>

\* lines 50-56
LoadManifestCall ==
    /\ cpc = "called" /\ call = "load_manifest"
    /\ \E manifest \in {LoadManifest(srcFile.text)} :
           IF manifest.raised
           THEN cpc' = "raised" /\ UNCHANGED returned
           ELSE cpc' = "returned" /\ returned' = <<manifest.manifest>>
    /\ UNCHANGED <<genVars, md5Vars, call, fileVars, source_manifest, destination_manifest,
                   missing_files, extra_files, mismatched_files, stdout, csv>>

\* compare_manifests(source_manifest, destination_manifest) is called on two dicts
PutManifests(source, destination) ==
    /\ cpc = "idle"
    /\ source_manifest' = source
    /\ destination_manifest' = destination
    /\ call' = "compare_manifests"
    /\ cpc' = "called"
    /\ UNCHANGED <<genVars, md5Vars, fileVars, missing_files, extra_files,
                   mismatched_files, stdout, returned, csv>>

\* lines 58-66
CompareManifestsCall ==
    /\ cpc = "called" /\ call = "compare_manifests"
    /\ LET source_files == DOMAIN source_manifest
           destination_files == DOMAIN destination_manifest
       IN  /\ missing_files' = MissingFiles(source_files, destination_files)
           /\ extra_files' = ExtraFiles(source_files, destination_files)
           /\ mismatched_files' = MismatchedFiles(source_manifest, destination_manifest)
    /\ returned' = <<<<missing_files', extra_files', mismatched_files'>>>>
    /\ cpc' = "returned"
    /\ UNCHANGED <<genVars, md5Vars, call, fileVars, source_manifest,
                   destination_manifest, stdout, csv>>

\* two manifest files exist, and compare is called on them
PutFiles(src, dst) ==
    /\ cpc = "idle"
    /\ srcFile' = src
    /\ dstFile' = dst
    /\ call' = "compare"
    /\ cpc' = "called"
    /\ UNCHANGED <<genVars, md5Vars, source_manifest, destination_manifest,
                   missing_files, extra_files, mismatched_files, stdout, returned, csv>>

\* lines 68-96; output_csv: a file name was given
CompareCall(output_csv) ==
    /\ cpc = "called" /\ call = "compare"
    /\ \E source \in {LoadManifest(srcFile.text)},
          destination \in {LoadManifest(dstFile.text)} :
           \/ /\ source.raised
              /\ cpc' = "raised"
              /\ UNCHANGED <<source_manifest, destination_manifest, missing_files,
                             extra_files, mismatched_files, stdout, returned, csv>>
           \/ /\ ~source.raised /\ destination.raised
              /\ source_manifest' = source.manifest
              /\ cpc' = "raised"
              /\ UNCHANGED <<destination_manifest, missing_files, extra_files,
                             mismatched_files, stdout, returned, csv>>
           \/ /\ ~source.raised /\ ~destination.raised
              /\ source_manifest' = source.manifest
              /\ destination_manifest' = destination.manifest
              /\ missing_files' = MissingFiles(DOMAIN source.manifest, DOMAIN destination.manifest)
              /\ extra_files' = ExtraFiles(DOMAIN source.manifest, DOMAIN destination.manifest)
              /\ mismatched_files' = MismatchedFiles(source.manifest, destination.manifest)
              /\ \E m \in Orderings(missing_files'), e \in Orderings(extra_files'),
                    h \in Orderings(mismatched_files') :
                    \E data \in {[missing |-> m, extra |-> e, hash_mismatch |-> h]} :
                    \E df \in {DataFrame(data)} :
                        /\ stdout' = Printed(data, output_csv)
                        /\ csv' = IF output_csv THEN <<ToCsv(df)>> ELSE <<>>
                        /\ returned' = <<df>>
              /\ cpc' = "returned"
    /\ UNCHANGED <<genVars, md5Vars, call, fileVars>>

CompareNext ==
    \/ cpc = "idle" /\ \E file \in ManifestFiles : PutFile(file)
    \/ LoadManifestCall
    \/ cpc = "idle" /\ \E source, destination \in Manifests : PutManifests(source, destination)
    \/ CompareManifestsCall
    \/ cpc = "idle" /\ \E src, dst \in CompareFiles : PutFiles(src, dst)
    \/ \E output_csv \in BOOLEAN : CompareCall(output_csv)

CompareSpec == Init /\ [][CompareNext]_vars

----------------------------------------------------------------------------
(* Properties of load_manifest, compare_manifests and compare *)

\* the mapping a sequence of entries stands for
EntryMap(entries) ==
    [k \in {entries[i].relative_path : i \in 1..Len(entries)} |->
        FormatChecksum((CHOOSE e \in {entries[i] : i \in 1..Len(entries)} :
                            e.relative_path = k).checksum)]

\* a path the round trip is promised for
ValidPath(p) == p # <<>> /\ p[1] # " " /\ \A i \in 1..Len(p) : p[i] # "\n"
HasDigests(entries) == \A i \in 1..Len(entries) : entries[i].checksum \in StoreDigests

\* load_manifest was called on a file and has returned or raised
Loaded == call = "load_manifest" /\ cpc \in {"returned", "raised"}

(* C12: round trip. When entries with valid paths (no newline, no leading
   space) and digests are written in the line format of generate_manifest and
   the file is loaded, load_manifest returns the mapping of these entries: the
   same keys, and for each key its digest. *)
C12_RoundTrip ==
    (/\ Loaded /\ srcFile.written /\ HasDigests(srcFile.entries)
     /\ \A i \in 1..Len(srcFile.entries) : ValidPath(srcFile.entries[i].relative_path))
        => /\ cpc = "returned"
           /\ returned = <<EntryMap(srcFile.entries)>>

\* the text has a line, from a line start to the next line end (LF, CR or
\* CR LF) or the end of the text, without any space
LineEnd == {"\n", "\r"}
HasLineWithoutSpace(text) ==
    \E a \in 1..Len(text), b \in 1..Len(text) :
        /\ a <= b
        /\ a = 1 \/ text[a - 1] \in LineEnd
        /\ ~(text[a] = "\n" /\ a > 1 /\ text[a - 1] = "\r")
        /\ b = Len(text) \/ text[b] \in LineEnd
        /\ \A i \in a..(b - 1) : text[i] \notin LineEnd
        /\ \A i \in a..b : text[i] # " "

\* compare was called on two files and has returned or raised
Compared == call = "compare" /\ cpc \in {"returned", "raised"}

(* C13: a manifest line without a space makes load_manifest raise; nothing is
   returned then, not even the mapping of the lines read before it; and a call
   of compare on such a file ends with the exception: no sets, no table, no
   CSV file, nothing printed. *)
C13_ParseErrorAborts ==
    /\ (Loaded /\ HasLineWithoutSpace(srcFile.text)) =>
           cpc = "raised" /\ returned = <<>>
    /\ (Compared /\ (HasLineWithoutSpace(srcFile.text) \/ HasLineWithoutSpace(dstFile.text))) =>
           /\ cpc = "raised"
           /\ returned = <<>> /\ csv = <<>> /\ stdout = <<>>
           /\ missing_files = {} /\ extra_files = {} /\ mismatched_files = {}

\* compare has raised on a destination file whose second line has no space,
\* after it had loaded a source manifest of two entries
C13_Witness ==
    /\ call = "compare" /\ cpc = "raised"
    /\ Len(srcFile.entries) = 2
    /\ Cardinality(DOMAIN source_manifest) = 2
    /\ dstFile.text = ManifestLine(<<"b">>, DigestOf(<<>>)) \o <<"a">> \o NL

\* compare_manifests was called on two dicts and has returned
ManifestsCompared == call = "compare_manifests" /\ cpc = "returned"

(* C14: compare_manifests(S, D) returns exactly the keys of S that are not keys
   of D (missing), the keys of D that are not keys of S (extra) and the keys of
   both whose digests differ (mismatched); the three sets are pairwise
   disjoint; the call leaves both dicts as they were. *)
C14_ExactDisjointSets ==
    /\ [](ManifestsCompared =>
            /\ missing_files =
                   {k \in DOMAIN source_manifest : k \notin DOMAIN destination_manifest}
            /\ extra_files =
                   {k \in DOMAIN destination_manifest : k \notin DOMAIN source_manifest}
            /\ mismatched_files =
                   {k \in DOMAIN source_manifest :
                       /\ k \in DOMAIN destination_manifest
                       /\ source_manifest[k] # destination_manifest[k]}
            /\ missing_files \cap extra_files = {}
            /\ missing_files \cap mismatched_files = {}
            /\ extra_files \cap mismatched_files = {}
            /\ returned = <<<<missing_files, extra_files, mismatched_files>>>>)
    /\ [][(call = "compare_manifests" /\ cpc = "called") =>
            /\ source_manifest' = source_manifest
            /\ destination_manifest' = destination_manifest]_vars

\* a call that returned three non-empty sets
C14_Witness ==
    /\ ManifestsCompared
    /\ missing_files # {} /\ extra_files # {} /\ mismatched_files # {}

(* C15: self-comparison. compare_manifests(M, M) returns three empty sets. *)
C15_SelfComparisonEmpty ==
    (ManifestsCompared /\ source_manifest = destination_manifest) =>
        /\ missing_files = {} /\ extra_files = {} /\ mismatched_files = {}
        /\ returned = <<<<{}, {}, {}>>>>

\* a manifest of two entries was compared with itself
C15_Witness ==
    /\ ManifestsCompared
    /\ source_manifest = destination_manifest
    /\ Cardinality(DOMAIN source_manifest) = 2

(* C16: swapping the arguments swaps missing and extra. The missing set of
   compare_manifests(A, B) is the extra set of compare_manifests(B, A), and the
   extra set of compare_manifests(A, B) is the missing set of
   compare_manifests(B, A). *)
C16_SwapSwapsMissingExtra ==
    ManifestsCompared =>
        /\ missing_files = ExtraFiles(DOMAIN destination_manifest, DOMAIN source_manifest)
        /\ extra_files = MissingFiles(DOMAIN destination_manifest, DOMAIN source_manifest)

\* two files are missing and another one is extra
C16_Witness ==
    /\ ManifestsCompared
    /\ Cardinality(missing_files) = 2
    /\ Cardinality(extra_files) = 1

\* the number of rows a table of these three sets must have
Longest(A, B, C) ==
    CHOOSE n \in {Cardinality(A), Cardinality(B), Cardinality(C)} :
        n >= Cardinality(A) /\ n >= Cardinality(B) /\ n >= Cardinality(C)

\* column col has n cells: the members of S, each once, and empty cells
ColumnOf(col, S, n) ==
    /\ Len(col) = n
    /\ {col[i] : i \in 1..Len(col)} \ {NaN} = S
    /\ Cardinality({i \in 1..Len(col) : col[i] # NaN}) = Cardinality(S)

(* C17: compare loads both manifest files, and the table it returns has the
   three columns missing, extra and hash_mismatch; the non-empty cells of a
   column are exactly the members of the set compare_manifests gives for the
   two loaded mappings; every column has as many cells as the largest of the
   three sets has members, the cells beyond a set's members being empty. *)
C17_TableOfTheThreeSets ==
    (Compared /\ cpc = "returned") =>
        /\ source_manifest = LoadManifest(srcFile.text).manifest
        /\ destination_manifest = LoadManifest(dstFile.text).manifest
        /\ missing_files = DOMAIN source_manifest \ DOMAIN destination_manifest
        /\ extra_files = DOMAIN destination_manifest \ DOMAIN source_manifest
        /\ mismatched_files =
               {k \in DOMAIN source_manifest \cap DOMAIN destination_manifest :
                   source_manifest[k] # destination_manifest[k]}
        /\ Len(returned) = 1
        /\ DOMAIN returned[1] = {"missing", "extra", "hash_mismatch"}
        /\ \E n \in {Longest(missing_files, extra_files, mismatched_files)} :
               /\ ColumnOf(returned[1].missing, missing_files, n)
               /\ ColumnOf(returned[1].extra, extra_files, n)
               /\ ColumnOf(returned[1].hash_mismatch, mismatched_files, n)

\* a table of two rows whose extra column is empty, also written as CSV
C17_Witness ==
    /\ Compared /\ cpc = "returned"
    /\ Cardinality(missing_files) = 2
    /\ returned[1].extra = <<NaN, NaN>>
    /\ csv # <<>>

\* a line without its newline
Chomp(line) ==
    IF line # <<>> /\ Last(line) = "\n" THEN SubSeq(line, 1, Len(line) - 1) ELSE line

\* the text before the first space of s, and all the text after it
HasSpace(s) == \E i \in 1..Len(s) : s[i] = " "
FirstSpace(s) == CHOOSE i \in 1..Len(s) : s[i] = " " /\ \A j \in 1..(i - 1) : s[j] # " "
KeyOf(s) == SubSeq(s, 1, FirstSpace(s) - 1)
DigestAfter(s) == SubSeq(s, FirstSpace(s) + 1, Len(s))

\* the mapping of the records recs (each with a space): the keys before the
\* first space, each with the text after the first space of its last record
LastWins(recs) ==
    [k \in {KeyOf(recs[i]) : i \in 1..Len(recs)} |->
        DigestAfter(recs[CHOOSE i \in 1..Len(recs) :
                             /\ KeyOf(recs[i]) = k
                             /\ \A j \in (i + 1)..Len(recs) : KeyOf(recs[j]) # k])]

ChompedLines(text) == [k \in 1..Len(FileLines(text)) |-> Chomp(FileLines(text)[k])]
StrippedLines(text) == [k \in 1..Len(FileLines(text)) |-> Strip(FileLines(text)[k])]

(* C18, as stated: load_manifest splits each line at its first space: the key
   is the text of the line before that space, the digest all the text of the
   line after it; of several lines with one key the last gives the digest. *)
C18_SplitsLineAtFirstSpace ==
    (Loaded /\ \A k \in 1..Len(FileLines(srcFile.text)) : HasSpace(ChompedLines(srcFile.text)[k]))
        => /\ cpc = "returned"
           /\ returned = <<LastWins(ChompedLines(srcFile.text))>>

(* C18, amended: load_manifest first removes the white space at both ends of
   each line, then splits what is left at its first space: the key is the text
   before that space, the digest all the text after it; a line with no space
   left raises; of several lines with one key the last gives the digest. *)
C18_SplitsStrippedLineAtFirstSpace ==
    Loaded =>
        IF \A k \in 1..Len(FileLines(srcFile.text)) : HasSpace(StrippedLines(srcFile.text)[k])
        THEN /\ cpc = "returned"
             /\ returned = <<LastWins(StrippedLines(srcFile.text))>>
        ELSE cpc = "raised" /\ returned = <<>>

\* a line with spaces at both ends, then a line with the same key
C18_Witness ==
    /\ Loaded /\ cpc = "returned"
    /\ srcFile.text = <<" ", "a", " ">> \o DigestOf(<<>>) \o <<" ">> \o NL
                          \o ManifestLine(<<"a">>, DigestOf(<<0>>))
    /\ returned = <<[k \in {<<"a">>} |-> DigestOf(<<0>>)]>>

----------------------------------------------------------------------------
(* Calls of md5sum_async on readable files of several chunks, lines 14-22 *)

\* the contents: empty, one byte, and around the multiples of the chunk size;
\* all zero, or ones and zeros in alternate chunks
Md5Lengths ==
    {0, 1, ChunkSize - 1} \cup {k * ChunkSize + d : k \in 1..MaxChunks, d \in {0, 1}}
Md5Contents ==
    {[i \in 1..n |-> 0] : n \in Md5Lengths}
        \cup {[i \in 1..n |-> 1 - (((i - 1) \div ChunkSize) % 2)] : n \in Md5Lengths}

\* line 15 and the call of aiofiles.open of line 16: md5sum_async(file_path) is
\* called on a file with this content; a call has returned at most once before
Md5Call(content) ==
    /\ hpc \in {"idle", "returned"}
    /\ Len(runs) <= 1
    /\ hcontent' = content
    /\ hstate' = Md5New
    /\ chunks' = <<>>
    /\ digest' = <<>>
    /\ hpc' = "open"
    /\ UNCHANGED <<genVars, cmpVars, hpos, runs>>

\* line 16: the open has completed, the file is at its start
Md5Open ==
    /\ hpc = "open"
    /\ hpos' = 0
    /\ hpc' = "read"
    /\ UNCHANGED <<genVars, cmpVars, hcontent, hstate, chunks, digest, runs>>

\* lines 17-21: one turn of the loop; the empty chunk ends it and leaves the
\* "async with" block, which awaits f.close()
Md5Read ==
    /\ hpc = "read"
    /\ \E chunk \in {ReadAt(hcontent, hpos)} :
          IF chunk = <<>>
          THEN /\ hpc' = "close"
               /\ UNCHANGED <<hpos, hstate, chunks>>
          ELSE /\ hstate' = Md5Update(hstate, chunk)
               /\ hpos' = hpos + Len(chunk)
               /\ chunks' = Append(chunks, chunk)
               /\ UNCHANGED hpc
    /\ UNCHANGED <<genVars, cmpVars, hcontent, digest, runs>>

\* line 22: the close has completed, the digest is returned
Md5Close ==
    /\ hpc = "close"
    /\ digest' = <<HexDigest(hstate)>>
    /\ runs' = Append(runs, [content |-> hcontent, digest |-> HexDigest(hstate)])
    /\ hpc' = "returned"
    /\ UNCHANGED <<genVars, cmpVars, hcontent, hpos, hstate, chunks>>

Md5Next ==
    \/ hpc \in {"idle", "returned"} /\ \E content \in Md5Contents : Md5Call(content)
    \/ Md5Open
    \/ Md5Read
    \/ Md5Close

Md5Spec == Init /\ [][Md5Next]_vars

(* C19: md5sum_async hands the file to the accumulator in chunks of 1 to 4096
   bytes, in the order of the file, every byte once: at each moment the chunks
   handed over, put end to end, are the bytes of the file up to the read
   position, and they are what the accumulator has absorbed. The loop stops at
   the first empty read, at the end of the file, and the digest returned is the
   digest of the content: calls on equal contents return equal digests. *)
C19_ChunksInOrder ==
    /\ \A k \in 1..Len(chunks) : Len(chunks[k]) \in 1..ChunkSize
    /\ hpc \in {"read", "close", "returned"} => Flatten(chunks) = SubSeq(hcontent, 1, hpos)
    /\ hstate = Flatten(chunks)
    /\ hpc \in {"close", "returned"} => hpos = Len(hcontent)
    /\ hpc = "returned" => digest = <<DigestOf(hcontent)>>
    /\ \A i, j \in 1..Len(runs) :
           /\ runs[i].digest = DigestOf(runs[i].content)
           /\ runs[i].content = runs[j].content => runs[i].digest = runs[j].digest

\* the second of two calls on one content of three chunks has returned
C19_Witness ==
    /\ hpc = "returned"
    /\ Len(chunks) = 3 /\ chunks[1] # chunks[2]
    /\ Len(runs) = 2 /\ runs[1].content = runs[2].content

----------------------------------------------------------------------------
(* The token None from generate_manifest to compare *)

\* the relative paths of the results written to a manifest file, and those
\* whose checksum is None
PathsOf(file) == {file.entries[i].relative_path : i \in 1..Len(file.entries)}
FailedIn(file) ==
    {file.entries[i].relative_path :
        i \in {j \in 1..Len(file.entries) : file.entries[j].checksum = None}}

(* C20: a failed checksum is written as the token None and read back as a
   digest like any other. When compare is run on the manifests written for two
   trees, a file whose checksum failed in both trees is in none of the three
   sets, and a file of both trees whose checksum failed in exactly one of them
   is in the mismatched set, and in neither the missing nor the extra set. *)
C20_NoneIsADigest ==
    (Compared /\ srcFile.written /\ dstFile.written) =>
        /\ cpc = "returned"
        /\ \A p \in FailedIn(srcFile) \cap FailedIn(dstFile) :
               p \notin missing_files \cup extra_files \cup mismatched_files
        /\ \A p \in PathsOf(srcFile) \cap PathsOf(dstFile) :
               (p \in FailedIn(srcFile)) # (p \in FailedIn(dstFile)) =>
                   /\ p \in mismatched_files
                   /\ p \notin missing_files \cup extra_files
====
